---- MODULE Spec2Model ----
\* Device status tracker (src/logic/statusTracker.js) and its in-memory Queue
\* (src/queue.js). Time is counted in whole minutes since the epoch; one handler
\* runs to completion within one clock reading.
EXTENDS Integers, Sequences, FiniteSets, TLC

\* devices .. metrics are the StatusTracker's fields; clock is Date.now();
\* timers holds the pending setTimeout callbacks, one batch per drain call;
\* last records the step that produced the state (its name, its device, its
\* payload, that device's status before it, and whether it ended by throwing);
\* requeued counts, per device, the items the retry callbacks have put back.
\* queue is a Queue used directly through its own methods, and qlog the record
\* of those calls: every item pushed, every item handed out, the last call with
\* its result, and per key the retry calls made and answered true.
VARIABLES devices, fallbackQueue, tamperCheckQueue, quarantineQueue, metrics,
          clock, timers, last, requeued, queue, qlog

vars == <<devices, fallbackQueue, tamperCheckQueue, quarantineQueue, metrics,
          clock, timers, last, requeued, queue, qlog>>

tracker == <<devices, fallbackQueue, tamperCheckQueue, quarantineQueue, metrics>>

\* ---------------------------------------------------------------- bounds
MaxOld == 1
MaxTime == 9
ClockStart == 6
MaxClock == 7
MaxMessages == 3
MaxTraffic == 2
MaxLoad == 102
MaxEnqueues == 3
MaxRetryCalls == 5
MaxIntake == 1
MaxObserved == 1
MaxRetried == 1

DeviceIds == {"D1", "D2"}
\* Message timestamps: old ones, around the sweep's threshold at the first clock
\* readings, and ones around the flapping threshold after an OFFLINE at ClockStart.
Times == (0..MaxOld) \cup ((ClockStart + 2)..MaxTime)
\* Math.random().toString(36).substr(2, 9): the suffix of an item id, which no
\* code path reads.
RandomSuffixes == {"k3x9q0z7a"}

\* ---------------------------------------------------- program constants
FiveMinutes == 5
TwoMinutes == 2
MinVoltage == 50
maxRetries == 3
DrainLimit == 100

\* ------------------------------------------------------------ JS values
\* null / an absent property is the empty tuple; a Date is <<minutes>>.
Null == <<>>

Date(t) == <<t>>

getTime(d) == d[1]

\* JS ToNumber on a Date-or-null operand of a relational comparison: null is 0.
ToNumber(d) == IF d = Null THEN 0 ELSE getTime(d)

\* A JSON value of a payload field: its typeof, its text and its number.
Str(s) == [type |-> "string", str |-> s, num |-> 0]

Num(n) == [type |-> "number", str |-> "", num |-> n]

\* A property the payload does not have reads as undefined.
Undefined == [type |-> "undefined", str |-> "", num |-> 0]

NullValue == [type |-> "null", str |-> "", num |-> 0]

NaN == [type |-> "number", str |-> "NaN", num |-> 0]

\* v < n for a value whose typeof is number: false for NaN.
LessThan(v, n) == v.str # "NaN" /\ v.num < n

\* const { device_id, timestamp, power_kw, voltage } = payload succeeds for
\* every value but null and undefined, for which it throws a TypeError.
Destructures(payload) ==
  ~("type" \in DOMAIN payload /\ payload.type \in {"null", "undefined"})

\* The device_id read from a payload: a Map key. The key undefined (no such
\* property) is written "undefined"; no device is named so.
KeyOf(payload) ==
  IF "device_id" \in DOMAIN payload THEN payload.device_id ELSE "undefined"

\* Date.prototype.toISOString: the ISO-8601 text of instant t.
toISOString(t) == [type |-> "string", str |-> "iso", num |-> t]

\* new Date(value).getTime(): the instant an ISO text denotes, NaN (Null) for
\* any other text.
ParseTime(v) ==
  IF v.type = "string" /\ v.str = "iso" THEN Date(v.num)
  ELSE IF v.type = "number" THEN Date(v.num)
  ELSE Null

\* --------------------------------------------------------------- Queue
NewQueue(name) ==
  [name |-> name, items |-> <<>>, processed |-> 0, retries |-> <<>>]

MapGet(m, k) == IF k \in DOMAIN m THEN m[k] ELSE 0

MapSet(m, k, v) == [x \in (DOMAIN m) \cup {k} |-> IF x = k THEN v ELSE m[x]]

\* enqueue(item): push {...item, enqueuedAt, id}.
Queue_enqueue(q, item, now, rnd) ==
  [q EXCEPT !.items = Append(@, [item EXCEPT !.enqueuedAt = toISOString(now),
                                             !.id = <<q.name, now, rnd>>])]

\* dequeue that hands out the newest item (pop for shift).
Queue_dequeue_pop(q) ==
  IF Len(q.items) = 0 THEN [q |-> q, ret |-> Null]
  ELSE [q |-> [q EXCEPT !.items = SubSeq(@, 1, Len(@) - 1), !.processed = @ + 1],
        ret |-> <<q.items[Len(q.items)]>>]

\* dequeue(): [q |-> the queue afterwards, ret |-> the item or null].
Queue_dequeue(q) ==
  IF Len(q.items) = 0 THEN [q |-> q, ret |-> Null]
  ELSE [q |-> [q EXCEPT !.items = Tail(@), !.processed = @ + 1],
        ret |-> <<Head(q.items)>>]

Queue_peek(q) == IF Len(q.items) = 0 THEN Null ELSE <<q.items[1]>>

Queue_size(q) == Len(q.items)

Queue_getStats(q) ==
  [name |-> q.name, pending |-> Len(q.items), processed |-> q.processed,
   retryCount |-> Cardinality(DOMAIN q.retries)]

\* retry with the comparison off by one (<= for <).
Queue_retry_offByOne(q, deviceId, max) ==
  LET currentRetries == MapGet(q.retries, deviceId)
  IN IF currentRetries <= max
     THEN [q |-> [q EXCEPT !.retries = MapSet(@, deviceId, currentRetries + 1)],
           ret |-> TRUE]
     ELSE [q |-> q, ret |-> FALSE]

\* retry without the cap: every call is granted and counted.
Queue_retry_noCap(q, deviceId, max) ==
  LET currentRetries == MapGet(q.retries, deviceId)
  IN [q |-> [q EXCEPT !.retries = MapSet(@, deviceId, currentRetries + 1)],
      ret |-> TRUE]

\* retry(deviceId, maxRetries): [q |-> the queue afterwards, ret |-> boolean].
Queue_retry(q, deviceId, max) ==
  LET currentRetries == MapGet(q.retries, deviceId)
  IN IF currentRetries < max
     THEN [q |-> [q EXCEPT !.retries = MapSet(@, deviceId, currentRetries + 1)],
           ret |-> TRUE]
     ELSE [q |-> q, ret |-> FALSE]

Queue_getRetryCount(q, deviceId) == MapGet(q.retries, deviceId)

Queue_clear(q) == [q EXCEPT !.items = <<>>, !.processed = 0, !.retries = <<>>]

\* An item handed to enqueue by the tracker: {deviceId, reason, timestamp}.
Item(deviceId, reason, now) ==
  [deviceId |-> deviceId, reason |-> reason, timestamp |-> toISOString(now),
   retryAttempt |-> Null, enqueuedAt |-> Null, id |-> Null]

\* ------------------------------------------------------- StatusTracker
\* The devices Map is the sequence of its entries in insertion order.
Has(devs, deviceId) == \E i \in 1..Len(devs) : devs[i].id = deviceId

IndexOf(devs, deviceId) == CHOOSE i \in 1..Len(devs) : devs[i].id = deviceId

Get(devs, deviceId) == devs[IndexOf(devs, deviceId)]

\* The tracker object as one record, for the handlers below; thrown names the
\* exception a handler ended with, if any.
This ==
  [devices |-> devices, fallbackQueue |-> fallbackQueue,
   tamperCheckQueue |-> tamperCheckQueue, quarantineQueue |-> quarantineQueue,
   metrics |-> metrics, thrown |-> ""]

getOrCreateDevice(self, deviceId) ==
  IF Has(self.devices, deviceId) THEN self
  ELSE [self EXCEPT !.devices =
          Append(@, [id |-> deviceId, status |-> "UNKNOWN", lastSeen |-> Null,
                     statusChangedAt |-> Null, lastMessage |-> Null])]

\* The voltage test with the limit itself refused (<= for <).
isMessageFaulty_limitRefused(payload) ==
  \/ payload.voltage.type # "number"
  \/ LessThan(payload.voltage, MinVoltage + 1)
  \/ payload.timestamp.type # "string"
  \/ payload.timestamp = Str("bad-timestamp")
  \/ ParseTime(payload.timestamp) = Null

\* isMessageFaulty(payload)
isMessageFaulty(payload) ==
  \/ payload.voltage.type # "number"
  \/ LessThan(payload.voltage, MinVoltage)
  \/ payload.timestamp.type # "string"
  \/ payload.timestamp = Str("bad-timestamp")
  \/ ParseTime(payload.timestamp) = Null

\* The offline handler without its counter.
handleOfflineDevice_uncounted(self, deviceId, now, rnd) ==
  LET s1 == getOrCreateDevice(self, deviceId)
      i == IndexOf(s1.devices, deviceId)
  IN [s1 EXCEPT !.devices[i].status = "OFFLINE",
                !.devices[i].statusChangedAt = Date(now),
                !.fallbackQueue = Queue_enqueue(@,
                   Item(deviceId, "No data for more than 5 minutes", now), now, rnd)]

handleOfflineDevice(self, deviceId, now, rnd) ==
  LET s1 == getOrCreateDevice(self, deviceId)
      i == IndexOf(s1.devices, deviceId)
  IN [s1 EXCEPT !.devices[i].status = "OFFLINE",
                !.devices[i].statusChangedAt = Date(now),
                !.fallbackQueue = Queue_enqueue(@,
                   Item(deviceId, "No data for more than 5 minutes", now), now, rnd),
                !.metrics.fallbacks = @ + 1]

\* The flapping handler with the status misspelt.
handleFlappingDevice_misspelt(self, deviceId, now, rnd) ==
  LET s1 == getOrCreateDevice(self, deviceId)
      i == IndexOf(s1.devices, deviceId)
  IN [s1 EXCEPT !.devices[i].status = "FLAPING",
                !.devices[i].statusChangedAt = Date(now),
                !.tamperCheckQueue = Queue_enqueue(@,
                   Item(deviceId, "Device came online within 2 minutes of going offline",
                        now), now, rnd),
                !.metrics.flapping = @ + 1]

handleFlappingDevice(self, deviceId, now, rnd) ==
  LET s1 == getOrCreateDevice(self, deviceId)
      i == IndexOf(s1.devices, deviceId)
  IN [s1 EXCEPT !.devices[i].status = "FLAPPING",
                !.devices[i].statusChangedAt = Date(now),
                !.tamperCheckQueue = Queue_enqueue(@,
                   Item(deviceId, "Device came online within 2 minutes of going offline",
                        now), now, rnd),
                !.metrics.flapping = @ + 1]

\* The faulty handler queueing the device without marking its entry.
handleFaultyDevice_unmarked(self, deviceId, reason, now, rnd) ==
  LET s1 == getOrCreateDevice(self, deviceId)
  IN [s1 EXCEPT !.quarantineQueue = Queue_enqueue(@, Item(deviceId, reason, now), now, rnd),
                !.metrics.faulty = @ + 1]

\* The faulty handler run after the last-seen update instead of before it.
handleFaultyDevice_touchLastSeen(self, deviceId, reason, now, rnd) ==
  LET s1 == getOrCreateDevice(self, deviceId)
      i == IndexOf(s1.devices, deviceId)
  IN [s1 EXCEPT !.devices[i].status = "FAULTY",
                !.devices[i].statusChangedAt = Date(now),
                !.devices[i].lastSeen = Date(now),
                !.quarantineQueue = Queue_enqueue(@, Item(deviceId, reason, now), now, rnd),
                !.metrics.faulty = @ + 1]

handleFaultyDevice(self, deviceId, reason, now, rnd) ==
  LET s1 == getOrCreateDevice(self, deviceId)
      i == IndexOf(s1.devices, deviceId)
  IN [s1 EXCEPT !.devices[i].status = "FAULTY",
                !.devices[i].statusChangedAt = Date(now),
                !.quarantineQueue = Queue_enqueue(@, Item(deviceId, reason, now), now, rnd),
                !.metrics.faulty = @ + 1]

\* The flapping test with a strict comparison (< for <=).
CameBackQuickly_strict(messageTime, statusChangedAt) ==
  getTime(messageTime) - ToNumber(statusChangedAt) < TwoMinutes

\* The OFFLINE branch of processMessage: offlineDuration <= 2 minutes.
CameBackQuickly(messageTime, statusChangedAt) ==
  getTime(messageTime) - ToNumber(statusChangedAt) <= TwoMinutes

\* Recovery stamped with the wall clock instead of the message time.
recoverFromOffline_wallClock(self, i, messageTime, now) ==
  [self EXCEPT !.devices[i].status = "ONLINE",
               !.devices[i].statusChangedAt = Date(now)]

\* The OFFLINE branch's else: the device recovered normally.
recoverFromOffline(self, i, messageTime, now) ==
  [self EXCEPT !.devices[i].status = "ONLINE",
               !.devices[i].statusChangedAt = messageTime]

\* The non-OFFLINE branch refreshing statusChangedAt on every message.
markOnline_alwaysStamp(self, i, messageTime) ==
  [self EXCEPT !.devices[i].status = "ONLINE",
               !.devices[i].statusChangedAt = messageTime]

\* The non-OFFLINE branch never stamping statusChangedAt.
markOnline_neverStamp(self, i, messageTime) ==
  [self EXCEPT !.devices[i].status = "ONLINE"]

\* The non-OFFLINE branch: the device is functioning normally.
markOnline(self, i, messageTime) ==
  [self EXCEPT !.devices[i].status = "ONLINE",
               !.devices[i].statusChangedAt = IF @ = Null THEN messageTime ELSE @]

\* The last-seen update keeping the latest timestamp seen.
updateLastSeen_keepLatest(self, i, messageTime, payload) ==
  [self EXCEPT !.devices[i].lastSeen =
                  IF @ # Null /\ getTime(@) > getTime(messageTime) THEN @
                  ELSE messageTime,
               !.devices[i].lastMessage = <<payload>>]

\* Update device last seen.
updateLastSeen(self, i, messageTime, payload) ==
  [self EXCEPT !.devices[i].lastSeen = messageTime,
               !.devices[i].lastMessage = <<payload>>]

\* processMessage(payload): the message is counted before the payload is
\* destructured.
processMessage(self, payload, now, rnd) ==
  LET s0 == [self EXCEPT !.metrics.totalMessages = @ + 1]
  IN IF ~Destructures(payload) THEN [s0 EXCEPT !.thrown = "TypeError"]
     ELSE IF isMessageFaulty(payload)
     THEN handleFaultyDevice(s0, payload.device_id, "Invalid voltage or timestamp",
                             now, rnd)
     ELSE
       LET messageTime == ParseTime(payload.timestamp)
           s1 == getOrCreateDevice(s0, payload.device_id)
           i == IndexOf(s1.devices, payload.device_id)
           s2 == updateLastSeen(s1, i, messageTime, payload)
           deviceState == s2.devices[i]
       IN IF deviceState.status = "OFFLINE"
          THEN IF CameBackQuickly(messageTime, deviceState.statusChangedAt)
               THEN handleFlappingDevice(s2, payload.device_id, now, rnd)
               ELSE recoverFromOffline(s2, i, messageTime, now)
          ELSE markOnline(s2, i, messageTime)

\* The sweep's test with the threshold included (<= for <).
IsSilent_atThreshold(deviceState, now) ==
  /\ deviceState.status # "OFFLINE"
  /\ ToNumber(deviceState.lastSeen) <= now - FiveMinutes

\* The sweep's test passing over a device that was never seen.
IsSilent_skipsNeverSeen(deviceState, now) ==
  /\ deviceState.status # "OFFLINE"
  /\ deviceState.lastSeen # Null
  /\ getTime(deviceState.lastSeen) < now - FiveMinutes

\* The sweep's test on one device: status !== 'OFFLINE' && lastSeen < fiveMinutesAgo.
IsSilent(deviceState, now) ==
  /\ deviceState.status # "OFFLINE"
  /\ ToNumber(deviceState.lastSeen) < now - FiveMinutes

\* checkOfflineDevices(): the loop over the Map's entries from index i on.
RECURSIVE SweepFrom(_, _, _, _)
SweepFrom(self, i, now, rnds) ==
  IF i > Len(self.devices) THEN self
  ELSE IF IsSilent(self.devices[i], now)
       THEN SweepFrom(handleOfflineDevice(self, self.devices[i].id, now, rnds[i]),
                      i + 1, now, rnds)
       ELSE SweepFrom(self, i + 1, now, rnds)

checkOfflineDevices(self, now, rnds) == SweepFrom(self, 1, now, rnds)

\* The loop condition with the limit's comparison turned round (> for <).
DrainContinues_turned(q, retryCount) == Queue_size(q) > 0 /\ retryCount > DrainLimit

\* The loop condition without the per-call limit.
DrainContinues_noLimit(q, retryCount) == Queue_size(q) > 0

\* The loop condition of processFallbackRetries.
DrainContinues(q, retryCount) == Queue_size(q) > 0 /\ retryCount < DrainLimit

\* One iteration: dequeue, retry, register the callback if eligible, count.
\* loop is [q, retryCount, scheduled], scheduled being the items whose
\* setTimeout callback was registered, in registration order.
DrainStep(loop) ==
  LET d == Queue_dequeue(loop.q)
      item == d.ret[1]
      r == Queue_retry(d.q, item.deviceId, maxRetries)
  IN [q |-> r.q, retryCount |-> loop.retryCount + 1,
      scheduled |-> IF r.ret THEN Append(loop.scheduled, item) ELSE loop.scheduled]

RECURSIVE DrainLoop(_)
DrainLoop(loop) ==
  IF DrainContinues(loop.q, loop.retryCount) THEN DrainLoop(DrainStep(loop))
  ELSE loop

\* processFallbackRetries()
processFallbackRetries(q) ==
  DrainLoop([q |-> q, retryCount |-> 0, scheduled |-> <<>>])

\* The callback with the cap included in its test (<= for <).
RetryCallback_atCap(q, item, now, rnd) ==
  LET currentRetries == Queue_getRetryCount(q, item.deviceId)
  IN IF currentRetries <= maxRetries
     THEN Queue_enqueue(q, [item EXCEPT !.retryAttempt = <<currentRetries>>], now, rnd)
     ELSE q

\* The callback without its second look at the retry count.
RetryCallback_unchecked(q, item, now, rnd) ==
  Queue_enqueue(q, [item EXCEPT !.retryAttempt =
                      <<Queue_getRetryCount(q, item.deviceId)>>], now, rnd)

\* The setTimeout callback of processFallbackRetries for one item.
RetryCallback(q, item, now, rnd) ==
  LET currentRetries == Queue_getRetryCount(q, item.deviceId)
  IN IF currentRetries < maxRetries
     THEN Queue_enqueue(q, [item EXCEPT !.retryAttempt = <<currentRetries>>], now, rnd)
     ELSE q

\* getMetrics with the read counted as a message.
getMetrics_countsItself(self, now) ==
  [self |-> [self EXCEPT !.metrics.totalMessages = @ + 1],
   ret |-> [totalMessages |-> self.metrics.totalMessages + 1,
            fallbacks |-> self.metrics.fallbacks,
            flapping |-> self.metrics.flapping,
            faulty |-> self.metrics.faulty,
            startTime |-> self.metrics.startTime,
            runtime |-> now - self.metrics.startTime,
            deviceCount |-> Len(self.devices),
            queueStats |-> [fallback |-> Queue_getStats(self.fallbackQueue),
                            tamperCheck |-> Queue_getStats(self.tamperCheckQueue),
                            quarantine |-> Queue_getStats(self.quarantineQueue)]]]

\* getMetrics(): [self |-> the tracker afterwards, ret |-> the object returned],
\* without memoryUsage, which is read from the process and not from the tracker.
getMetrics(self, now) ==
  [self |-> self,
   ret |-> [totalMessages |-> self.metrics.totalMessages,
            fallbacks |-> self.metrics.fallbacks,
            flapping |-> self.metrics.flapping,
            faulty |-> self.metrics.faulty,
            startTime |-> self.metrics.startTime,
            runtime |-> now - self.metrics.startTime,
            deviceCount |-> Len(self.devices),
            queueStats |-> [fallback |-> Queue_getStats(self.fallbackQueue),
                            tamperCheck |-> Queue_getStats(self.tamperCheckQueue),
                            quarantine |-> Queue_getStats(self.quarantineQueue)]]]

\* The number of entries with status st.
CountOf(devs, st) == Cardinality({i \in 1..Len(devs) : devs[i].status = st})

\* getDeviceStatusCounts(): [self |-> the tracker afterwards, ret |-> the counts
\* under the five keys the result starts with].
getDeviceStatusCounts(self) ==
  [self |-> self,
   ret |-> [ONLINE |-> CountOf(self.devices, "ONLINE"),
            OFFLINE |-> CountOf(self.devices, "OFFLINE"),
            FLAPPING |-> CountOf(self.devices, "FLAPPING"),
            FAULTY |-> CountOf(self.devices, "FAULTY"),
            UNKNOWN |-> CountOf(self.devices, "UNKNOWN")]]

\* ------------------------------------------------------------- actions
ValidPayload(d, t) ==
  [device_id |-> d, timestamp |-> toISOString(t), power_kw |-> Num(1),
   voltage |-> Num(230)]

\* The two faults simulateLoad.js injects: voltage 0, and 'bad-timestamp' in
\* both fields.
FaultyPayloads(d) ==
  { [device_id |-> d, timestamp |-> toISOString(0), power_kw |-> Num(1),
     voltage |-> Num(0)],
    [device_id |-> d, timestamp |-> Str("bad-timestamp"), power_kw |-> Num(1),
     voltage |-> Str("bad-timestamp")] }

Payloads ==
  UNION { {ValidPayload(d, t) : t \in Times} \cup FaultyPayloads(d) : d \in DeviceIds }

\* What a caller can put in the voltage and the timestamp of a payload:
\* well-formed values, values at and just under the voltage limit, values of
\* the wrong type, and no value at all.
Voltages ==
  {Num(230), Num(MinVoltage), Num(MinVoltage - 1), NaN, Str("230"), Undefined}

Timestamps ==
  {toISOString(MaxTime), Str("bad-timestamp"), Str("not a date"), Num(MaxTime),
   Undefined}

\* Every request body: objects with any of these fields, with or without a
\* device_id and a power_kw, and the bodies null and undefined.
Bodies ==
  { [device_id |-> d, timestamp |-> ts, power_kw |-> p, voltage |-> v] :
      d \in {"D1", "undefined"}, ts \in Timestamps,
      p \in {Num(1), Undefined}, v \in Voltages }
  \cup {NullValue, Undefined}

\* The record of a finished step: its payload if any, and in pre the status of
\* its device before it (none when the Map had no entry; every status for a
\* sweep).
Done(op, deviceId, payload) ==
  [op |-> op, deviceId |-> deviceId, payload |-> payload, raised |-> FALSE,
   pre |-> IF op = "checkOfflineDevices"
           THEN [i \in 1..Len(devices) |-> devices[i].status]
           ELSE IF Has(devices, deviceId) THEN <<Get(devices, deviceId).status>>
           ELSE <<>>]

Install(self) ==
  /\ devices' = self.devices
  /\ fallbackQueue' = self.fallbackQueue
  /\ tamperCheckQueue' = self.tamperCheckQueue
  /\ quarantineQueue' = self.quarantineQueue
  /\ metrics' = self.metrics

\* new StatusTracker()
Init ==
  /\ devices = <<>>
  /\ fallbackQueue = NewQueue("fallback")
  /\ tamperCheckQueue = NewQueue("tamperCheck")
  /\ quarantineQueue = NewQueue("quarantine")
  /\ clock = ClockStart
  /\ metrics = [totalMessages |-> 0, fallbacks |-> 0, flapping |-> 0, faulty |-> 0,
                startTime |-> ClockStart]
  /\ timers = <<>>
  /\ last = [op |-> "constructor", deviceId |-> "", payload |-> Null,
             raised |-> FALSE, pre |-> <<>>]
  /\ requeued = <<>>
  /\ queue = NewQueue("q")
  /\ qlog = [op |-> "constructor", key |-> "", item |-> Null, bool |-> FALSE,
             num |-> 0, enq |-> <<>>, deq |-> <<>>, cleared |-> FALSE,
             calls |-> [k \in DeviceIds |-> 0], trues |-> [k \in DeviceIds |-> 0]]

\* The wall clock advances between handlers.
Tick ==
  /\ clock < MaxClock
  /\ clock' = clock + 1
  /\ last' = Done("tick", "", Null)
  /\ UNCHANGED <<tracker, timers, requeued, queue, qlog>>

\* POST /telemetry, or one message of the simulation's batch, with a payload
\* among payloads, while fewer than budget messages have been counted.
ProcessMessageOf(payloads, budget) ==
  /\ metrics.totalMessages < budget
  /\ \E payload \in payloads, rnd \in RandomSuffixes :
       LET self == processMessage(This, payload, clock, rnd)
       IN /\ Install(self)
          /\ last' = [Done("processMessage", KeyOf(payload), <<payload>>)
                        EXCEPT !.raised = self.thrown # ""]
  /\ UNCHANGED <<clock, timers, requeued, queue, qlog>>

\* The traffic simulateLoad.js generates.
ProcessMessage(budget) == ProcessMessageOf(Payloads, budget)

\* The periodic and the final offline check.
CheckOfflineDevices ==
  /\ \E rnds \in [1..Len(devices) -> RandomSuffixes] :
       Install(checkOfflineDevices(This, clock, rnds))
  /\ last' = Done("checkOfflineDevices", "", Null)
  /\ UNCHANGED <<clock, timers, requeued, queue, qlog>>

\* The retry drain; its callbacks are left pending as one batch.
ProcessFallbackRetries ==
  LET r == processFallbackRetries(fallbackQueue)
  IN /\ fallbackQueue' = r.q
     /\ timers' = IF r.scheduled = <<>> THEN timers ELSE Append(timers, r.scheduled)
     /\ last' = Done("processFallbackRetries", "", Null)
     /\ UNCHANGED <<devices, tamperCheckQueue, quarantineQueue, metrics, clock,
                  requeued, queue, qlog>>

RemoveAt(s, i) == SubSeq(s, 1, i - 1) \o SubSeq(s, i + 1, Len(s))

\* The earliest pending callback of one drain call fires (callbacks of one call
\* are staggered 1 s apart, so they fire in registration order; callbacks of
\* different calls interleave).
RetryCallbackFires ==
  /\ \E b \in 1..Len(timers), rnd \in RandomSuffixes :
       LET item == Head(timers[b])
           q2 == RetryCallback(fallbackQueue, item, clock, rnd)
       IN /\ fallbackQueue' = q2
          /\ timers' = IF Len(timers[b]) = 1 THEN RemoveAt(timers, b)
                        ELSE [timers EXCEPT ![b] = Tail(@)]
          /\ requeued' = IF Len(q2.items) > Len(fallbackQueue.items)
                          THEN MapSet(requeued, item.deviceId,
                                      MapGet(requeued, item.deviceId) + 1)
                          ELSE requeued
          /\ last' = Done("retryCallback", item.deviceId, Null)
  /\ UNCHANGED <<devices, tamperCheckQueue, quarantineQueue, metrics, clock,
                  queue, qlog>>

\* GET /metrics calls getMetrics, then getDeviceStatusCounts.
GetMetrics ==
  /\ Install(getMetrics(This, clock).self)
  /\ last' = Done("getMetrics", "", Null)
  /\ UNCHANGED <<clock, timers, requeued, queue, qlog>>

GetDeviceStatusCounts ==
  /\ Install(getDeviceStatusCounts(This).self)
  /\ last' = Done("getDeviceStatusCounts", "", Null)
  /\ UNCHANGED <<clock, timers, requeued, queue, qlog>>

Next ==
  \/ Tick
  \/ ProcessMessage(MaxTraffic)
  \/ CheckOfflineDevices
  \/ ProcessFallbackRetries
  \/ RetryCallbackFires

Spec == Init /\ [][Next]_vars

\* Ingestion and sweeps alone, with a longer message history: neither handler
\* reads timers or the fallback queue's items, which are all the drain and its
\* callbacks change.
IngestNext ==
  \/ Tick
  \/ ProcessMessage(MaxMessages)
  \/ CheckOfflineDevices

IngestSpec == Init /\ [][IngestNext]_vars

\* Ingestion of any request body, and sweeps.
IntakeNext ==
  \/ Tick
  \/ ProcessMessageOf(Bodies, MaxIntake)
  \/ CheckOfflineDevices

IntakeSpec == Init /\ [][IntakeNext]_vars

\* The tracker while the drain keeps being triggered and every timer that was
\* set fires: a pending drain or callback is not put off forever.
RetryNext ==
  \/ Tick
  \/ ProcessMessage(MaxRetried)
  \/ CheckOfflineDevices
  \/ ProcessFallbackRetries
  \/ RetryCallbackFires

RetrySpec ==
  /\ Init
  /\ [][RetryNext]_vars
  /\ WF_vars(ProcessFallbackRetries)
  /\ WF_vars(RetryCallbackFires)

\* Every operation together with the reads of GET /metrics.
MetricsNext ==
  \/ Tick
  \/ ProcessMessage(MaxObserved)
  \/ CheckOfflineDevices
  \/ ProcessFallbackRetries
  \/ RetryCallbackFires
  \/ GetMetrics
  \/ GetDeviceStatusCounts

MetricsSpec == Init /\ [][MetricsNext]_vars

\* ------------------------------------------------ a loaded fallback queue
\* One more round: a faulty message (for D1 and D2 in turn), then a sweep.
LoadRound(self) ==
  LET d == IF self.metrics.totalMessages % 2 = 0 THEN "D1" ELSE "D2"
      rnd == CHOOSE r \in RandomSuffixes : TRUE
      bad == CHOOSE b \in FaultyPayloads(d) : b.voltage = Num(0)
      s1 == processMessage(self, bad, ClockStart, rnd)
  IN checkOfflineDevices(s1, ClockStart, [j \in 1..Len(s1.devices) |-> rnd])

RECURSIVE LoadUntil(_, _)
LoadUntil(self, n) ==
  IF self.metrics.totalMessages >= n THEN self ELSE LoadUntil(LoadRound(self), n)

\* The tracker after n such rounds: n fallback items are pending.
Loaded(n) ==
  LoadUntil([devices |-> <<>>, fallbackQueue |-> NewQueue("fallback"),
             tamperCheckQueue |-> NewQueue("tamperCheck"),
             quarantineQueue |-> NewQueue("quarantine"),
             metrics |-> [totalMessages |-> 0, fallbacks |-> 0, flapping |-> 0,
                          faulty |-> 0, startTime |-> ClockStart],
             thrown |-> ""], n)

LoadedInit ==
  /\ \E n \in 0..MaxLoad :
       LET self == Loaded(n)
       IN /\ devices = self.devices
          /\ fallbackQueue = self.fallbackQueue
          /\ tamperCheckQueue = self.tamperCheckQueue
          /\ quarantineQueue = self.quarantineQueue
          /\ metrics = self.metrics
  /\ clock = ClockStart
  /\ timers = <<>>
  /\ last = [op |-> "loaded", deviceId |-> "", payload |-> Null,
             raised |-> FALSE, pre |-> <<>>]
  /\ requeued = <<>>
  /\ queue = NewQueue("q")
  /\ qlog = [op |-> "constructor", key |-> "", item |-> Null, bool |-> FALSE,
             num |-> 0, enq |-> <<>>, deq |-> <<>>, cleared |-> FALSE,
             calls |-> [k \in DeviceIds |-> 0], trues |-> [k \in DeviceIds |-> 0]]

DrainNext ==
  \/ ProcessFallbackRetries
  \/ RetryCallbackFires

DrainSpec == LoadedInit /\ [][DrainNext]_vars

\* ------------------------------------------- the Queue used on its own
Called(op, key, item, bool, num) ==
  [qlog EXCEPT !.op = op, !.key = key, !.item = item, !.bool = bool, !.num = num]

\* The caller's items carry a serial number of its own in timestamp.
Enqueue ==
  /\ Len(qlog.enq) < MaxEnqueues
  /\ \E d \in DeviceIds, rnd \in RandomSuffixes :
       LET q2 == Queue_enqueue(queue, Item(d, "test", Len(qlog.enq) + 1), clock, rnd)
       IN /\ queue' = q2
          /\ qlog' = [Called("enqueue", d, Null, FALSE, 0) EXCEPT
                        !.enq = Append(@, q2.items[Len(q2.items)])]
  /\ UNCHANGED <<tracker, clock, timers, last, requeued>>

Dequeue ==
  LET r == Queue_dequeue(queue)
  IN /\ queue' = r.q
     /\ qlog' = [Called("dequeue", "", r.ret, FALSE, 0) EXCEPT
                   !.deq = @ \o r.ret]
     /\ UNCHANGED <<tracker, clock, timers, last, requeued>>

Peek ==
  /\ qlog' = Called("peek", "", Queue_peek(queue), FALSE, 0)
  /\ UNCHANGED <<tracker, clock, timers, last, requeued, queue>>

Size ==
  /\ qlog' = Called("size", "", Null, FALSE, Queue_size(queue))
  /\ UNCHANGED <<tracker, clock, timers, last, requeued, queue>>

Retry ==
  /\ \E k \in DeviceIds :
       LET r == Queue_retry(queue, k, maxRetries)
       IN /\ qlog.calls[k] < MaxRetryCalls
          /\ queue' = r.q
          /\ qlog' = [Called("retry", k, Null, r.ret, 0) EXCEPT
                        !.calls[k] = @ + 1,
                        !.trues[k] = IF r.ret THEN @ + 1 ELSE @]
  /\ UNCHANGED <<tracker, clock, timers, last, requeued>>

GetRetryCount ==
  /\ \E k \in DeviceIds :
       qlog' = Called("getRetryCount", k, Null, FALSE, Queue_getRetryCount(queue, k))
  /\ UNCHANGED <<tracker, clock, timers, last, requeued, queue>>

\* clear() makes every key fresh again.
Clear ==
  /\ queue' = Queue_clear(queue)
  /\ qlog' = [Called("clear", "", Null, FALSE, 0) EXCEPT
                !.cleared = TRUE,
                !.calls = [k \in DeviceIds |-> 0],
                !.trues = [k \in DeviceIds |-> 0]]
  /\ UNCHANGED <<tracker, clock, timers, last, requeued>>

QueueNext ==
  \/ Enqueue
  \/ Dequeue
  \/ Peek
  \/ Size
  \/ Retry
  \/ GetRetryCount
  \/ Clear

QueueSpec == Init /\ [][QueueNext]_vars

\* ---------------------------------------------------------- properties
Min(a, b) == IF a < b THEN a ELSE b

NoDuplicates(s) == \A i, j \in 1..Len(s) : s[i] = s[j] => i = j

\* q2 is q with exactly one item more, at the tail, for device d.
OneMoreFor(q, q2, d) ==
  /\ Len(q2.items) = Len(q.items) + 1
  /\ SubSeq(q2.items, 1, Len(q.items)) = q.items
  /\ q2.items[Len(q2.items)].deviceId = d
  /\ q2.processed = q.processed
  /\ q2.retries = q.retries

\* The step is processMessage of a valid payload for a device that had status
\* st before it.
ValidMessageFor(st) ==
  /\ last'.op = "processMessage"
  /\ ~isMessageFaulty(last'.payload[1])
  /\ Has(devices, last'.deviceId)
  /\ Get(devices, last'.deviceId).status = st

\* Minutes from the device's statusChangedAt to the message's timestamp.
OfflineFor ==
  getTime(ParseTime(last'.payload[1].timestamp))
    - getTime(Get(devices, last'.deviceId).statusChangedAt)

\* C1: a valid message for an OFFLINE device at most 2 minutes after its
\* statusChangedAt makes it FLAPPING, stamps statusChangedAt with the wall
\* clock, appends exactly one item for it to the tamper-check queue and adds 1
\* to flapping; the fallback and quarantine queues and the fallbacks and faulty
\* counters stay as they were.
C1_FlappingWithinTwoMinutes ==
  [][(ValidMessageFor("OFFLINE") /\ OfflineFor <= 2) =>
       LET d == last'.deviceId
       IN /\ Get(devices', d).status = "FLAPPING"
          /\ Get(devices', d).statusChangedAt = Date(clock)
          /\ OneMoreFor(tamperCheckQueue, tamperCheckQueue', d)
          /\ metrics'.flapping = metrics.flapping + 1
          /\ fallbackQueue' = fallbackQueue
          /\ quarantineQueue' = quarantineQueue
          /\ metrics'.fallbacks = metrics.fallbacks
          /\ metrics'.faulty = metrics.faulty]_vars

\* A device that went OFFLINE at the wall clock has just sent a valid message
\* stamped exactly 2 minutes later and is FLAPPING.
C1_Witness ==
  /\ last.op = "processMessage"
  /\ last.pre = <<"OFFLINE">>
  /\ ~isMessageFaulty(last.payload[1])
  /\ getTime(ParseTime(last.payload[1].timestamp)) = clock + 2
  /\ Get(devices, last.deviceId).status = "FLAPPING"
  /\ Len(tamperCheckQueue.items) = 1
  /\ metrics.flapping = 1

\* The positions of the entries a sweep at the current clock has to mark: not
\* OFFLINE, and last seen (never counting as the epoch) more than 5 minutes ago.
Overdue ==
  {i \in 1..Len(devices) :
     /\ devices[i].status # "OFFLINE"
     /\ (IF devices[i].lastSeen = Null THEN 0 ELSE devices[i].lastSeen[1]) + 5 < clock}

\* C2: a sweep marks every overdue entry OFFLINE at the wall clock and leaves
\* the others alone, appends exactly one fallback item per overdue device and
\* adds their number to fallbacks; a sweep repeated at once changes nothing.
C2_SweepMarksOverdue ==
  /\ [][last'.op = "checkOfflineDevices" =>
          LET n == Len(fallbackQueue.items)
              added == SubSeq(fallbackQueue'.items, n + 1, Len(fallbackQueue'.items))
          IN /\ Len(devices') = Len(devices)
             /\ \A i \in 1..Len(devices) :
                  devices'[i] = IF i \in Overdue
                                THEN [devices[i] EXCEPT !.status = "OFFLINE",
                                                        !.statusChangedAt = Date(clock)]
                                ELSE devices[i]
             /\ SubSeq(fallbackQueue'.items, 1, n) = fallbackQueue.items
             /\ Len(added) = Cardinality(Overdue)
             /\ \A i \in Overdue :
                  Cardinality({j \in 1..Len(added) :
                                 added[j].deviceId = devices[i].id}) = 1
             /\ metrics' = [metrics EXCEPT !.fallbacks = @ + Cardinality(Overdue)]
             /\ tamperCheckQueue' = tamperCheckQueue
             /\ quarantineQueue' = quarantineQueue]_vars
  /\ [](last.op = "checkOfflineDevices" =>
          \A rnds \in [1..Len(devices) -> RandomSuffixes] :
            checkOfflineDevices(This, clock, rnds) = This)

\* A sweep has just marked two devices OFFLINE, one of them seen before, and
\* queued one fallback item for each.
C2_Witness ==
  /\ last.op = "checkOfflineDevices"
  /\ Len(devices) = 2
  /\ \A i \in 1..2 : last.pre[i] # "OFFLINE" /\ devices[i].status = "OFFLINE"
  /\ \E i \in 1..2 : devices[i].lastSeen # Null
  /\ Len(fallbackQueue.items) = 2
  /\ fallbackQueue.items[1].deviceId # fallbackQueue.items[2].deviceId
  /\ metrics.fallbacks = 2

\* C3: a valid message for an OFFLINE device more than 2 minutes after its
\* statusChangedAt makes it ONLINE with statusChangedAt the message's timestamp;
\* no queue receives an item and only totalMessages changes among the counters.
C3_RecoveryAfterTwoMinutes ==
  [][(ValidMessageFor("OFFLINE") /\ OfflineFor > 2) =>
       LET d == last'.deviceId
       IN /\ Get(devices', d).status = "ONLINE"
          /\ Get(devices', d).statusChangedAt = ParseTime(last'.payload[1].timestamp)
          /\ fallbackQueue' = fallbackQueue
          /\ tamperCheckQueue' = tamperCheckQueue
          /\ quarantineQueue' = quarantineQueue
          /\ metrics' = [metrics EXCEPT !.totalMessages = @ + 1]]_vars

\* An OFFLINE device has just recovered with a message stamped 3 minutes after
\* it went offline, a time that is not the wall clock's.
C3_Witness ==
  /\ last.op = "processMessage"
  /\ last.pre = <<"OFFLINE">>
  /\ ~isMessageFaulty(last.payload[1])
  /\ Get(devices, last.deviceId).status = "ONLINE"
  /\ Get(devices, last.deviceId).statusChangedAt = Date(clock + 3)
  /\ Get(devices, last.deviceId).lastSeen = Date(clock + 3)

\* C4: a faulty message for a device in any status, or with no entry yet,
\* leaves an entry with status FAULTY and statusChangedAt the wall clock,
\* appends exactly one item to the quarantine queue, adds 1 to faulty, and
\* leaves lastSeen and lastMessage as they were (null for a new entry).
C4_FaultyMessage ==
  [][(last'.op = "processMessage" /\ isMessageFaulty(last'.payload[1])) =>
       LET d == last'.deviceId
       IN /\ Has(devices', d)
          /\ Get(devices', d).status = "FAULTY"
          /\ Get(devices', d).statusChangedAt = Date(clock)
          /\ OneMoreFor(quarantineQueue, quarantineQueue', d)
          /\ metrics'.faulty = metrics.faulty + 1
          /\ Get(devices', d).lastSeen =
                (IF Has(devices, d) THEN Get(devices, d).lastSeen ELSE Null)
          /\ Get(devices', d).lastMessage =
                (IF Has(devices, d) THEN Get(devices, d).lastMessage ELSE Null)]_vars

\* An OFFLINE device that had been seen before has just sent a faulty message.
C4_Witness ==
  /\ last.op = "processMessage"
  /\ last.pre = <<"OFFLINE">>
  /\ isMessageFaulty(last.payload[1])
  /\ Get(devices, last.deviceId).status = "FAULTY"
  /\ Get(devices, last.deviceId).lastSeen # Null

\* The step is processMessage of the first valid payload for its device.
FirstValidMessage ==
  /\ last'.op = "processMessage"
  /\ ~isMessageFaulty(last'.payload[1])
  /\ Has(devices, last'.deviceId) => Get(devices, last'.deviceId).lastSeen = Null

\* C5 as claimed: the first valid message for a device finds it UNKNOWN (or
\* without an entry), makes it ONLINE and sets lastSeen and statusChangedAt to
\* the message's timestamp, whatever was applied to the device before.
C5_AsClaimed ==
  [][FirstValidMessage =>
       LET d == last'.deviceId
           t == ParseTime(last'.payload[1].timestamp)
       IN /\ Has(devices, d) => Get(devices, d).status = "UNKNOWN"
          /\ Get(devices', d).status = "ONLINE"
          /\ Get(devices', d).lastSeen = t
          /\ Get(devices', d).statusChangedAt = t]_vars

\* C5 amended: the first valid message for a device sets lastSeen to its
\* timestamp; a device with no entry yet becomes ONLINE with statusChangedAt the
\* message's timestamp; a device made FAULTY before becomes ONLINE and keeps its
\* statusChangedAt; a device swept OFFLINE before becomes FLAPPING or ONLINE by
\* the 2-minute rule.
C5_FirstValidMessage ==
     [][FirstValidMessage =>
          LET d == last'.deviceId
              t == ParseTime(last'.payload[1].timestamp)
          IN /\ Get(devices', d).lastSeen = t
             /\ ~Has(devices, d) =>
                   /\ Get(devices', d).status = "ONLINE"
                   /\ Get(devices', d).statusChangedAt = t
             /\ (Has(devices, d) /\ Get(devices, d).status = "FAULTY") =>
                   /\ Get(devices', d).status = "ONLINE"
                   /\ Get(devices', d).statusChangedAt = Get(devices, d).statusChangedAt
             /\ (Has(devices, d) /\ Get(devices, d).status = "OFFLINE") =>
                   Get(devices', d).status =
                     (IF OfflineFor <= 2 THEN "FLAPPING" ELSE "ONLINE")]_vars

\* A second device has just sent its first message, a valid one, and is ONLINE
\* since that message's timestamp.
C5_Witness ==
  /\ last.op = "processMessage"
  /\ last.pre = <<>>
  /\ ~isMessageFaulty(last.payload[1])
  /\ Len(devices) = 2
  /\ Get(devices, last.deviceId).status = "ONLINE"
  /\ Get(devices, last.deviceId).statusChangedAt
       = ParseTime(last.payload[1].timestamp)

\* C6: a valid message for a device that is ONLINE, FLAPPING or FAULTY makes it
\* ONLINE and leaves its statusChangedAt, which is set, as it was; no queue
\* receives an item.
C6_OnlineKeepsStamp ==
  [][(\E st \in {"ONLINE", "FLAPPING", "FAULTY"} : ValidMessageFor(st)) =>
       LET d == last'.deviceId
       IN /\ Get(devices, d).statusChangedAt # Null
          /\ Get(devices', d).status = "ONLINE"
          /\ Get(devices', d).statusChangedAt = Get(devices, d).statusChangedAt
          /\ fallbackQueue' = fallbackQueue
          /\ tamperCheckQueue' = tamperCheckQueue
          /\ quarantineQueue' = quarantineQueue]_vars

\* A FLAPPING device has just sent a valid message and is ONLINE with a
\* statusChangedAt that is not the message's timestamp.
C6_Witness ==
  /\ last.op = "processMessage"
  /\ last.pre = <<"FLAPPING">>
  /\ ~isMessageFaulty(last.payload[1])
  /\ Get(devices, last.deviceId).status = "ONLINE"
  /\ Get(devices, last.deviceId).statusChangedAt
       # ParseTime(last.payload[1].timestamp)

\* C7: for a fresh key, retry(k, 3) answers true on calls 1, 2 and 3 and false on
\* every later call; getRetryCount(k) is the number of calls answered true, so
\* a call answered false leaves the stored count as it was.
C7_RetryThreeTimes ==
  /\ \A k \in DeviceIds :
       /\ qlog.trues[k] = Min(qlog.calls[k], 3)
       /\ Queue_getRetryCount(queue, k) = qlog.trues[k]
  /\ qlog.op = "retry" => (qlog.bool <=> qlog.calls[qlog.key] <= 3)
  /\ qlog.op = "getRetryCount" => qlog.num = qlog.trues[qlog.key]

\* A fourth and a fifth retry(k, 3) were refused.
C7_Witness ==
  /\ qlog.op = "retry"
  /\ ~qlog.bool
  /\ qlog.calls[qlog.key] = 5
  /\ Queue_getRetryCount(queue, qlog.key) = 3

\* C8: without clear, the items handed out by dequeue are a prefix of the items
\* pushed, in push order, followed by the pending ones; none is handed out
\* twice; processed counts the items handed out; dequeue on an empty queue
\* answers null and changes nothing.
C8_FifoAtMostOnce ==
  /\ [](~qlog.cleared =>
          /\ qlog.enq = qlog.deq \o queue.items
          /\ NoDuplicates(qlog.deq)
          /\ queue.processed = Len(qlog.deq))
  /\ [][(qlog'.op = "dequeue" /\ queue.items = <<>>) =>
          (qlog'.item = Null /\ queue' = queue)]_vars
  /\ [][(qlog'.op = "dequeue" /\ queue.items # <<>>) =>
          (qlog'.item = <<Head(queue.items)>> /\ queue'.processed = queue.processed + 1)]_vars
  /\ [][qlog'.op \in {"peek", "size"} => queue' = queue]_vars

\* Three items were pushed, all handed out in order, and a fourth dequeue
\* found the queue empty.
C8_Witness ==
  /\ ~qlog.cleared
  /\ Len(qlog.deq) = 3
  /\ qlog.deq[1].deviceId # qlog.deq[2].deviceId
  /\ queue.processed = 3
  /\ qlog.op = "dequeue"
  /\ qlog.item = Null

\* The items one drain call takes from the head of the fallback queue.
Taken == SubSeq(fallbackQueue.items, 1, Min(Len(fallbackQueue.items), 100))

\* retry(deviceId, 3) answers true for the j-th item taken: the device's count
\* before the call plus its earlier items in this call is below 3.
RetryGranted(j) ==
  Queue_getRetryCount(fallbackQueue, Taken[j].deviceId)
    + Cardinality({h \in 1..(j - 1) : Taken[h].deviceId = Taken[j].deviceId}) < 3

\* x is item put back by a callback that read the retry count c.
PutBack(x, item, c) ==
  /\ x.deviceId = item.deviceId
  /\ x.reason = item.reason
  /\ x.timestamp = item.timestamp
  /\ x.retryAttempt = <<c>>

\* C9: a drain call leaves a callback pending for exactly the items whose
\* retry(deviceId, 3) answered true, and puts nothing back itself; a callback
\* puts its item back on the fallback queue, with retryAttempt the count it
\* reads, exactly when that count is below 3; nothing else ever adds a pending
\* callback or puts an item with a retryAttempt on any queue.
C9_RequeueOnlyIfStillBelowCap ==
  /\ [][last'.op = "processFallbackRetries" =>
          LET granted == {j \in 1..Len(Taken) : RetryGranted(j)}
              batch == IF timers' = timers THEN <<>> ELSE timers'[Len(timers')]
          IN /\ timers' = IF granted = {} THEN timers ELSE Append(timers, batch)
             /\ Len(batch) = Cardinality(granted)
             /\ \A j \in granted :
                  batch[Cardinality({h \in granted : h <= j})] = Taken[j]
             /\ \A i \in 1..Len(fallbackQueue'.items) :
                  \E h \in 1..Len(fallbackQueue.items) :
                    fallbackQueue'.items[i] = fallbackQueue.items[h]]_vars
  /\ [][last'.op = "retryCallback" =>
          \E b \in 1..Len(timers) :
            LET item == timers[b][1]
                c == Queue_getRetryCount(fallbackQueue, item.deviceId)
                n == Len(fallbackQueue.items)
            IN /\ timers' = IF Len(timers[b]) = 1 THEN RemoveAt(timers, b)
                             ELSE [timers EXCEPT ![b] = Tail(@)]
               /\ c < 3 =>
                     /\ Len(fallbackQueue'.items) = n + 1
                     /\ SubSeq(fallbackQueue'.items, 1, n) = fallbackQueue.items
                     /\ PutBack(fallbackQueue'.items[n + 1], item, c)
               /\ c >= 3 => fallbackQueue'.items = fallbackQueue.items
               /\ fallbackQueue'.retries = fallbackQueue.retries
               /\ fallbackQueue'.processed = fallbackQueue.processed
               /\ tamperCheckQueue' = tamperCheckQueue
               /\ quarantineQueue' = quarantineQueue]_vars
  /\ [][last'.op \notin {"processFallbackRetries", "retryCallback"} =>
          /\ timers' = timers
          /\ \A i \in (Len(fallbackQueue.items) + 1)..Len(fallbackQueue'.items) :
               fallbackQueue'.items[i].retryAttempt = Null]_vars
  /\ [](\A i \in 1..Len(tamperCheckQueue.items) :
          tamperCheckQueue.items[i].retryAttempt = Null)
  /\ [](\A i \in 1..Len(quarantineQueue.items) :
          quarantineQueue.items[i].retryAttempt = Null)

\* One fallback item has been drained three times and put back twice; the
\* callback of its third retry has just found the count at 3 and dropped it.
C9_Witness ==
  /\ last.op = "retryCallback"
  /\ Queue_getRetryCount(fallbackQueue, last.deviceId) = 3
  /\ fallbackQueue.processed = 3
  /\ fallbackQueue.items = <<>>
  /\ timers = <<>>
  /\ metrics.fallbacks = 1

\* C10: one drain call on n pending items ends after exactly min(n, 100)
\* iterations, takes that many items from the head, leaves the other
\* n - min(n, 100) pending in their order and puts nothing on the fallback
\* queue before it returns.
C10_DrainTakesAtMostHundred ==
  /\ [](processFallbackRetries(fallbackQueue).retryCount
          = Min(Len(fallbackQueue.items), 100))
  /\ [][last'.op = "processFallbackRetries" =>
          LET n == Len(fallbackQueue.items)
              k == Min(n, 100)
          IN /\ fallbackQueue'.items = SubSeq(fallbackQueue.items, k + 1, n)
             /\ fallbackQueue'.processed = fallbackQueue.processed + k]_vars

\* A drain call on 102 pending items has just taken 100 and left 2.
C10_Witness ==
  /\ last.op = "processFallbackRetries"
  /\ metrics.fallbacks = 102
  /\ fallbackQueue.processed = 100
  /\ Len(fallbackQueue.items) = 2
  /\ Len(timers) = 1
  /\ Len(timers[1]) = 6

\* The request body has a device_id but lacks a usable voltage or timestamp, or
\* is no object at all.
Malformed(payload) ==
  \/ ~Destructures(payload)
  \/ payload.voltage.type # "number"
  \/ payload.timestamp.type # "string"
  \/ payload.timestamp \notin {toISOString(t) : t \in 0..MaxTime}

\* C11: no call of processMessage, checkOfflineDevices or processFallbackRetries
\* ends by throwing, whatever the payload (well-formed, fields missing or of
\* the wrong type, null or undefined); a malformed payload adds exactly one
\* item to the quarantine queue and 1 to faulty.
C11_NoOperationRaises ==
  [][last'.op \in {"processMessage", "checkOfflineDevices",
                   "processFallbackRetries", "retryCallback"} =>
       /\ ~last'.raised
       /\ (last'.op = "processMessage" /\ Malformed(last'.payload[1])) =>
             /\ OneMoreFor(quarantineQueue, quarantineQueue', last'.deviceId)
             /\ metrics'.faulty = metrics.faulty + 1]_vars

\* The conditions under which a payload counts as faulty: its voltage is no
\* number or is below 50, or its timestamp is no string, is the sentinel, or
\* denotes no instant.
FaultyByRule(payload) ==
  \/ payload.voltage.type # "number"
  \/ payload.voltage \in {Num(n) : n \in 0..49}
  \/ payload.timestamp.type # "string"
  \/ payload.timestamp = Str("bad-timestamp")
  \/ payload.timestamp \notin {toISOString(t) : t \in 0..MaxTime}

\* C12: isMessageFaulty answers true exactly for the payloads faulty by the
\* rule, so false for a numeric voltage of 50 or more with a parseable,
\* non-sentinel string timestamp; its answer does not depend on device_id or
\* power_kw; and processMessage quarantines the device exactly when it answers
\* true.
C12_FaultyExactly ==
  (last.op = "processMessage" /\ ~last.raised) =>
     LET payload == last.payload[1]
     IN /\ isMessageFaulty(payload) <=> FaultyByRule(payload)
        /\ \A d \in DeviceIds \cup {"undefined"}, pw \in {Num(1), Str("1"), Undefined} :
             isMessageFaulty([payload EXCEPT !.device_id = d, !.power_kw = pw])
               <=> FaultyByRule(payload)
        /\ Get(devices, last.deviceId).status = "FAULTY" <=> FaultyByRule(payload)

\* A message with a voltage of exactly 50 and a parseable timestamp, from a
\* caller that sent no power_kw, has just been accepted: the device is ONLINE
\* and nothing was quarantined.
C12_Witness ==
  /\ last.op = "processMessage"
  /\ ~last.raised
  /\ last.payload[1].voltage = Num(50)
  /\ last.payload[1].power_kw = Undefined
  /\ Get(devices, last.deviceId).status = "ONLINE"
  /\ quarantineQueue.items = <<>>
  /\ metrics.faulty = 0

\* The positions of the entries never seen (lastSeen unset) and not OFFLINE.
NeverSeen ==
  {i \in 1..Len(devices) :
     devices[i].lastSeen = Null /\ devices[i].status # "OFFLINE"}

\* C13: a sweep, however soon after the faulty message, marks every entry whose
\* lastSeen is unset and whose status is not OFFLINE as OFFLINE at the wall
\* clock and appends exactly one fallback item for it; fallbacks grows by the
\* number of items appended. Such an entry has only ever sent faulty messages:
\* it is FAULTY and has no lastMessage.
C13_NeverSeenSweptAtOnce ==
  /\ [][last'.op = "checkOfflineDevices" =>
          LET n == Len(fallbackQueue.items)
              added == SubSeq(fallbackQueue'.items, n + 1, Len(fallbackQueue'.items))
          IN /\ \A i \in NeverSeen :
                  /\ devices'[i].status = "OFFLINE"
                  /\ devices'[i].statusChangedAt = Date(clock)
                  /\ devices'[i].lastSeen = Null
                  /\ Cardinality({j \in 1..Len(added) :
                                    added[j].deviceId = devices[i].id}) = 1
             /\ metrics'.fallbacks = metrics.fallbacks + Len(added)
             /\ Len(added) >= Cardinality(NeverSeen)]_vars
  /\ [](\A i \in NeverSeen :
          devices[i].status = "FAULTY" /\ devices[i].lastMessage = Null)

\* A device sent one faulty message and the sweep ran within the same minute,
\* the minute the tracker was constructed: the device is OFFLINE with one
\* fallback item, and fallbacks is 1.
C13_Witness ==
  /\ last.op = "checkOfflineDevices"
  /\ last.pre = <<"FAULTY">>
  /\ clock = metrics.startTime
  /\ metrics.totalMessages = 1
  /\ devices[1].lastSeen = Null
  /\ devices[1].status = "OFFLINE"
  /\ devices[1].statusChangedAt = Date(clock)
  /\ Len(fallbackQueue.items) = 1
  /\ fallbackQueue.items[1].deviceId = devices[1].id
  /\ metrics.fallbacks = 1

\* C14: a call of getMetrics or getDeviceStatusCounts, in any state, leaves the
\* device table, the three queues (items, processed, retry counts) and the four
\* counters as they were, and schedules nothing.
C14_ReadsChangeNothing ==
  [][last'.op \in {"getMetrics", "getDeviceStatusCounts"} =>
       /\ devices' = devices
       /\ fallbackQueue' = fallbackQueue
       /\ tamperCheckQueue' = tamperCheckQueue
       /\ quarantineQueue' = quarantineQueue
       /\ metrics' = metrics
       /\ timers' = timers
       /\ getMetrics(This, clock).ret.totalMessages = metrics.totalMessages]_vars

\* getMetrics has just been called on a tracker with one OFFLINE device, one
\* item drained from the fallback queue and its callback pending.
C14_Witness ==
  /\ last.op = "getMetrics"
  /\ metrics.totalMessages = 1
  /\ getMetrics(This, clock).ret.deviceCount = 1
  /\ getDeviceStatusCounts(This).ret.OFFLINE = 1
  /\ getMetrics(This, clock).ret.queueStats.fallback.processed = 1
  /\ getMetrics(This, clock).ret.queueStats.fallback.retryCount = 1
  /\ Len(timers) = 1

\* C15: whatever the interleaving of messages, sweeps, drains and callbacks,
\* the fallback queue's retry count of every device id is between 0 and 3, and
\* no step lowers it.
C15_RetryCountBounded ==
  /\ [](\A d \in DeviceIds \cup DOMAIN fallbackQueue.retries :
          Queue_getRetryCount(fallbackQueue, d) \in 0..3)
  /\ [][\A d \in DeviceIds \cup DOMAIN fallbackQueue.retries :
          Queue_getRetryCount(fallbackQueue', d)
            >= Queue_getRetryCount(fallbackQueue, d)]_vars

\* A device went OFFLINE twice; its first fallback item used up the three
\* retries, and a drain has just taken its second item with the count staying
\* at 3.
C15_Witness ==
  /\ last.op = "processFallbackRetries"
  /\ metrics.fallbacks = 2
  /\ \E d \in DeviceIds :
       /\ Queue_getRetryCount(fallbackQueue, d) = 3
       /\ fallbackQueue.retries = MapSet(<<>>, d, 3)
  /\ fallbackQueue.processed = 4
  /\ fallbackQueue.items = <<>>
  /\ timers = <<>>

\* C16: after processMessage has handled a valid message, the device's lastSeen
\* is that message's timestamp and its lastMessage that payload, whether the
\* timestamp is later or earlier than the lastSeen the device had.
C16_ArrivalOrder ==
  [][(last'.op = "processMessage" /\ ~last'.raised
        /\ ~isMessageFaulty(last'.payload[1])) =>
       LET d == last'.deviceId
       IN /\ Get(devices', d).lastSeen = Date(last'.payload[1].timestamp.num)
          /\ Get(devices', d).lastMessage = last'.payload]_vars

\* A device's first message was stamped at minute 9 (its statusChangedAt); a
\* second valid message stamped at minute 0 has just arrived, and lastSeen went
\* back to minute 0.
C16_Witness ==
  /\ last.op = "processMessage"
  /\ last.pre = <<"ONLINE">>
  /\ metrics.totalMessages = 2
  /\ metrics.faulty = 0
  /\ Len(devices) = 1
  /\ devices[1].statusChangedAt = Date(9)
  /\ devices[1].lastSeen = Date(0)
  /\ devices[1].lastMessage = <<ValidPayload(devices[1].id, 0)>>

\* C17: every entry's status is one of UNKNOWN, ONLINE, OFFLINE, FLAPPING and
\* FAULTY, and the five counts getDeviceStatusCounts returns add up to the
\* deviceCount getMetrics returns.
C17_StatusEnumerated ==
  /\ \A i \in 1..Len(devices) :
       devices[i].status \in {"UNKNOWN", "ONLINE", "OFFLINE", "FLAPPING", "FAULTY"}
  /\ LET counts == getDeviceStatusCounts(This).ret
     IN counts.UNKNOWN + counts.ONLINE + counts.OFFLINE + counts.FLAPPING
          + counts.FAULTY = getMetrics(This, clock).ret.deviceCount

\* Two devices are tracked, one OFFLINE whose fallback item has been drained
\* and one ONLINE: the counts are 1 and 1.
C17_Witness ==
  /\ getMetrics(This, clock).ret.deviceCount = 2
  /\ getDeviceStatusCounts(This).ret.OFFLINE = 1
  /\ getDeviceStatusCounts(This).ret.ONLINE = 1
  /\ fallbackQueue.processed = 1

\* C18: between operations no entry is UNKNOWN: every entry's status is ONLINE,
\* OFFLINE, FLAPPING or FAULTY and its statusChangedAt is set, so
\* getDeviceStatusCounts reports UNKNOWN = 0.
C18_UnknownNeverObservable ==
  /\ \A i \in 1..Len(devices) :
       /\ devices[i].status \in {"ONLINE", "OFFLINE", "FLAPPING", "FAULTY"}
       /\ devices[i].statusChangedAt # Null
  /\ getDeviceStatusCounts(This).ret.UNKNOWN = 0

\* The first message of a second device was faulty: its entry, created within
\* the call, is FAULTY since the wall clock and was never seen.
C18_Witness ==
  /\ last.op = "processMessage"
  /\ last.pre = <<>>
  /\ isMessageFaulty(last.payload[1])
  /\ Len(devices) = 2
  /\ devices[2].id = last.deviceId
  /\ devices[2].status = "FAULTY"
  /\ devices[2].statusChangedAt = Date(clock)
  /\ devices[2].lastSeen = Null

\* The sum of the values of a map.
RECURSIVE SumOf(_)
SumOf(m) ==
  IF DOMAIN m = {} THEN 0
  ELSE LET k == CHOOSE x \in DOMAIN m : TRUE
       IN m[k] + SumOf([x \in (DOMAIN m) \ {k} |-> m[x]])

\* C19: the quarantine queue holds as many items as faulty counts and the
\* tamper-check queue as many as flapping counts, neither having been
\* dequeued; the fallback queue's pending plus processed items are as many as
\* fallbacks counts plus the items put back so far; and totalMessages is at
\* least faulty + flapping.
C19_CountersInStep ==
  /\ Queue_getStats(quarantineQueue).pending = metrics.faulty
  /\ Queue_getStats(quarantineQueue).processed = 0
  /\ Queue_getStats(tamperCheckQueue).pending = metrics.flapping
  /\ Queue_getStats(tamperCheckQueue).processed = 0
  /\ Queue_getStats(fallbackQueue).pending + Queue_getStats(fallbackQueue).processed
       = metrics.fallbacks + SumOf(requeued)
  /\ metrics.totalMessages >= metrics.faulty + metrics.flapping

\* After a faulty message, a sweep and a message that made the device FLAPPING,
\* the one fallback item has been drained three times and put back twice.
C19_Witness ==
  /\ metrics.totalMessages = 2
  /\ metrics.faulty = 1
  /\ metrics.flapping = 1
  /\ metrics.fallbacks = 1
  /\ SumOf(requeued) = 2
  /\ fallbackQueue.processed = 3
  /\ fallbackQueue.items = <<>>
  /\ Len(quarantineQueue.items) = 1
  /\ Len(tamperCheckQueue.items) = 1

\* C20: while the drain keeps being triggered and every scheduled callback
\* runs, once the sweeps add no more fallback items the fallback queue becomes
\* empty with no callback pending, and stays so.
C20_RetryCycleEnds ==
  <>[](fallbackQueue.items = <<>> /\ timers = <<>>)

\* The fallback item of a device has been drained three times and put back
\* twice, its last callback dropped it, and a further drain has just found the
\* queue empty with nothing pending.
C20_Witness ==
  /\ last.op = "processFallbackRetries"
  /\ metrics.fallbacks = 1
  /\ \E d \in DeviceIds :
       Queue_getRetryCount(fallbackQueue, d) = 3 /\ MapGet(requeued, d) = 2
  /\ fallbackQueue.processed = 3
  /\ fallbackQueue.items = <<>>
  /\ timers = <<>>

\* C21: however many fallback items and offline episodes a device has, the
\* callbacks put back at most 2 items for it in all, each with retryAttempt 1 or
\* 2; a callback that finds the count at 3 (as the one scheduled by the third
\* granted retry always does) puts nothing back; and once the count is 3 a drain
\* drops every item of the device it takes, scheduling no callback for it.
C21_AtMostTwoRequeues ==
  /\ [](\A d \in DOMAIN requeued : requeued[d] <= 2)
  /\ [](\A i \in 1..Len(fallbackQueue.items) :
          fallbackQueue.items[i].retryAttempt \in {Null, <<1>>, <<2>>})
  /\ [](\A b \in 1..Len(timers) : \A j \in 1..Len(timers[b]) :
          timers[b][j].retryAttempt \in {Null, <<1>>, <<2>>})
  /\ [][last'.op = "retryCallback" =>
          LET d == last'.deviceId
              c == Queue_getRetryCount(fallbackQueue, d)
          IN /\ c \in 1..3
             /\ c = 3 => (fallbackQueue' = fallbackQueue /\ requeued' = requeued)
             /\ c < 3 =>
                   /\ MapGet(requeued', d) = MapGet(requeued, d) + 1
                   /\ fallbackQueue'.items[Len(fallbackQueue'.items)].retryAttempt = <<c>>]_vars
  /\ [][last'.op = "processFallbackRetries" =>
          LET batch == IF timers' = timers THEN <<>> ELSE timers'[Len(timers')]
          IN \A d \in DeviceIds :
               Queue_getRetryCount(fallbackQueue, d) = 3 =>
                 /\ \A j \in 1..Len(batch) : batch[j].deviceId # d
                 /\ \A i \in 1..Len(fallbackQueue'.items) :
                      fallbackQueue'.items[i].deviceId # d]_vars

\* One device went OFFLINE twice. Its two fallback items were put back twice in
\* all, the third granted retry's callback has just dropped its item, and the
\* other item was dropped by a drain: four items taken, none pending.
C21_Witness ==
  /\ last.op = "retryCallback"
  /\ Len(devices) = 1
  /\ metrics.fallbacks = 2
  /\ Queue_getRetryCount(fallbackQueue, devices[1].id) = 3
  /\ MapGet(requeued, devices[1].id) = 2
  /\ fallbackQueue.processed = 4
  /\ fallbackQueue.items = <<>>
  /\ timers = <<>>

====
